---- MODULE Spec2Model ----
(***************************************************************************)
(* Brooks GF1xx EtherCAT control system (src/main.py): the channel driver, *)
(* the EtherCAT manager with its cyclic thread, the data manager and the   *)
(* CSV data recorder.                                                      *)
(*                                                                         *)
(* Spec     : EtherCATManager (connect / disconnect / set_setpoint) with   *)
(*            the cyclic threads it starts, interleaved step by step.      *)
(* FairSpec : the same with weak fairness on the steps of the cyclic       *)
(*            threads, set_setpoint called with one value.                 *)
(* StoreSpec: DataManager.update_data / get_history.                       *)
(* RecSpec  : DataRecorder start_recording / record_data / stop_recording  *)
(*            called one after the other.                                  *)
(* DriverSpec: one BrooksDriver under construction, write_setpoint and     *)
(*            read_data calls, with the replies and frames of its slave.   *)
(* DmSpec   : DataManager with its threads: update_data of the cyclic      *)
(*            thread statement by statement under the lock, the reads and  *)
(*            start / stop of the window thread, and the record timers.    *)
(* ScaleSpec: EtherCATManager with get_full_scale in place of              *)
(*            set_setpoint.                                                *)
(***************************************************************************)
EXTENDS Integers, Sequences, FiniteSets, TLC

(***************************************************************************)
(* Bounds of the model.                                                    *)
(***************************************************************************)
\* number of connect() calls in a behaviour
MaxConnects == 2
\* cyclic threads alive at the same time
MaxAlive == 2
\* largest number of slaves config_init() reports
MaxSlaves == 2
\* DataManager(num_controllers, max_points): capacity of each history deque
MaxPoints == 3
\* number of update_data() calls in a behaviour of StoreSpec
MaxUpdates == 5
\* DataRecorder(buffer_size): capacity of the row buffer
BufferSize == 2
\* number of record_data() calls in a behaviour of RecSpec
MaxRows == 5
\* number of update_data() calls in a behaviour of DmSpec
MaxPublishes == 2
\* rows after which DmSpec starts no further run of the record task
MaxRecords == 2
\* record timers that exist at the same time
MaxTimers == 2

(***************************************************************************)
(* Program constants.                                                      *)
(***************************************************************************)
DefaultFullScale == 30000
MinFullScale == 1
MaxFullScale == 1000000
InputFrameLen == 13
NumChannels == 2

(***************************************************************************)
(* Python floats: a finite number, NaN, +inf or -inf.  Comparisons with    *)
(* NaN are false, which is what decides min() and max() below.             *)
(***************************************************************************)
Num(x) == [k |-> "num", v |-> x]
NaN == [k |-> "nan", v |-> 0]
PosInf == [k |-> "inf", v |-> 1]
NegInf == [k |-> "inf", v |-> -1]

\* a < b on floats
FLt(a, b) ==
  IF a.k = "nan" \/ b.k = "nan" THEN FALSE
  ELSE IF a.k = b.k THEN a.v < b.v
  ELSE IF a.k = "inf" THEN a.v < 0
  ELSE b.v > 0

\* a <= b on floats
FLe(a, b) == FLt(a, b) \/ (a.k # "nan" /\ a = b)

\* min(a, b) of Python: the first argument unless the second is smaller
PyMin(a, b) == IF FLt(b, a) THEN b ELSE a
\* max(a, b) of Python: the first argument unless the second is larger
PyMax(a, b) == IF FLt(a, b) THEN b ELSE a

\* the upper limit alone: min(setpoint, self.full_scale)
ClampNoFloor(setpoint, full_scale) == PyMin(setpoint, full_scale)
\* max(0.0, min(setpoint, self.full_scale))
Clamp(setpoint, full_scale) == PyMax(Num(0), PyMin(setpoint, full_scale))

(***************************************************************************)
(* Process-data frames of one slave.                                       *)
(***************************************************************************)
\* struct.pack('<fBfI', float(setpoint), 0, 0.0, 0)
OutFrame(sp) == [len |-> 13, setpoint |-> sp, res_b |-> 0, res_f |-> 0, res_u |-> 0]
\* slave.output before config_map(): no bytes
EmptyOut == [len |-> 0, setpoint |-> Num(0), res_b |-> 0, res_f |-> 0, res_u |-> 0]
InFrame(n, raw, p, t) == [len |-> n, flow_raw |-> raw, pressure |-> p, temperature |-> t]
\* slave.input before config_map(): no bytes
EmptyIn == InFrame(0, 0, 0, 0)
\* what a device delivers in one exchange: its 13-byte TxPDO
InputFrames == {InFrame(13, 5000, 14, 23)}

(***************************************************************************)
(* BrooksDriver                                                            *)
(***************************************************************************)
\* replies of slave.sdo_read(0x2103, 0, 4): an exception, or len bytes that
\* unpack to val
SdoReplies ==
  {[exc |-> TRUE, len |-> 0, val |-> Num(0)],
   [exc |-> FALSE, len |-> 0, val |-> Num(0)],
   [exc |-> FALSE, len |-> 2, val |-> Num(20000)],
   [exc |-> FALSE, len |-> 4, val |-> Num(20000)],
   [exc |-> FALSE, len |-> 4, val |-> Num(0)],
   [exc |-> FALSE, len |-> 4, val |-> Num(2000000)],
   [exc |-> FALSE, len |-> 4, val |-> NaN]}

\* a discovery that would take any reply of four bytes or more
ReadFullScaleAny(reply) ==
  IF ~reply.exc /\ reply.len >= 4 THEN reply.val ELSE Num(DefaultFullScale)
\* BrooksDriver._read_full_scale: the value of self.full_scale afterwards
ReadFullScale(reply) ==
  IF ~reply.exc /\ reply.len >= 4
     /\ FLe(Num(MinFullScale), reply.val) /\ FLe(reply.val, Num(MaxFullScale))
  THEN reply.val
  ELSE Num(DefaultFullScale)

\* a constructor that would give every driver the controller id 0
NewDriverFirst(id, reply) ==
  [controller_id |-> 0,
   full_scale |-> ReadFullScale(reply),
   setpoint |-> Num(0),
   output |-> EmptyOut,
   input |-> EmptyIn]
\* BrooksDriver.__init__
NewDriver(id, reply) ==
  [controller_id |-> id,
   full_scale |-> ReadFullScale(reply),
   setpoint |-> Num(0),
   output |-> EmptyOut,
   input |-> EmptyIn]

\* flow_percent = flow_raw / 100.0 ; flow_sccm = flow_percent * full_scale / 100.0
FlowSccm(flow_raw, full_scale) == ((flow_raw \div 100) * full_scale.v) \div 100

\* a read_data that would want more than 13 bytes
ReadDataStrict(d) ==
  IF d.input.len <= InputFrameLen THEN <<>>
  ELSE <<[timestamp |-> 0,
          flow |-> FlowSccm(d.input.flow_raw, d.full_scale),
          pressure |-> d.input.pressure,
          temperature |-> d.input.temperature,
          setpoint |-> d.setpoint]>>
\* BrooksDriver.read_data: <<>> is None, <<s>> is the ControllerData s
ReadData(d) ==
  IF d.input.len < InputFrameLen THEN <<>>
  ELSE <<[timestamp |-> 0,
          flow |-> FlowSccm(d.input.flow_raw, d.full_scale),
          pressure |-> d.input.pressure,
          temperature |-> d.input.temperature,
          setpoint |-> d.setpoint]>>

\* outcomes of the read of self.slave.output on the slave object of the
\* master stack, the first thing write_setpoint does: it yields the buffer,
\* or it raises
WriteFaults == {"none", "raise"}

\* a write_setpoint that would store the value as it was passed
WriteSetpointDriverRaw(d, setpoint, fault) ==
  IF fault = "raise" \/ d.output.len = 0 THEN d
  ELSE [d EXCEPT !.setpoint = setpoint,
                 !.output = OutFrame(Clamp(setpoint, d.full_scale))]
\* BrooksDriver.write_setpoint, the driver afterwards
WriteSetpointDriver(d, setpoint, fault) ==
  IF fault = "raise" \/ d.output.len = 0 THEN d
  ELSE LET s == Clamp(setpoint, d.full_scale)
       IN [d EXCEPT !.setpoint = s, !.output = OutFrame(s)]

\* BrooksDriver.write_setpoint, what the caller gets
WriteSetpointResult(d, fault) ==
  IF fault = "raise" THEN "raised"
  ELSE IF d.output.len = 0 THEN "false" ELSE "true"

(***************************************************************************)
(* State.                                                                  *)
(***************************************************************************)
VARIABLES
  \* EtherCATManager
  state,          \* self._state
  master,         \* self.master: "none" is None, "fresh" a Master object whose
                  \* slaves have no drivers, "bound" the Master object whose
                  \* slaves the drivers of the list self.drivers hold
  adapter,        \* the adapter of the Master object self.master refers to:
                  \* "none" (no object), "new", "open" or "closed"
  drv,            \* per list object: the BrooksDriver objects it holds
  drivers,        \* self.drivers: 0 the list of __init__, else a list object
  cyclic_thread,  \* self._cyclic_thread: 0 is None, else a thread object
  stop_event,     \* self._stop_event
  thr,            \* per thread object: its position in _cyclic_task, its
                  \* locals, and in trace the calls of the iteration it is
                  \* in: "push" a write_setpoint, "tx" the send, "rx" the
                  \* receive, "dec" a read_data
  cpc,            \* position of the control thread in connect / disconnect
  ci,             \* control thread: loop index i
  cn,             \* control thread: num_controllers
  nconn,          \* connect() calls so far
  result,         \* what connect() returned when it was the last call:
                  \* "ok" for (True, "connected n"), "ok_state" for (True,
                  \* "connected in state s"), "fail" for (False, msg), else "none"
  steps,          \* the steps of connect that the connect() call in progress,
                  \* or else the last call if it returned True, has completed
  slave_count,    \* control thread: slave_count of config_init()
  actual_state,   \* control thread: what the last state_check() returned
  \* DataManager
  current_data,   \* self.current_data
  history,        \* self.history
  appended,       \* per channel: every sample appended so far
  nupd,           \* update_data() calls so far
  \* DataRecorder
  is_recording,   \* self._is_recording
  file,           \* self._file: <<>> is None, <<f>> a file object
  writer,         \* self._writer is not None
  buffer,         \* self._buffer
  disk,           \* per destination path: the rows written to it
  start_result,   \* what the last start_recording() returned
  nrows,          \* record_data() calls so far
  flushes,        \* sizes of the flushes since the last successful start
  session,        \* rows appended by record_data since the last successful start
  \* DataManager and its threads
  dm_lock,        \* DataManager._lock: "free", or held by "update" / "record"
  upd,            \* the update_data call in progress: its position in the
                  \* loop (entry i, statement f) and its argument
  committed,      \* DmSpec: current_data and history as the update_data
                  \* calls that have returned leave them when each is
                  \* applied at once
  seen,           \* what the last get_current_data / get_history returned:
                  \* <<x>> in the field of the call made, x the value
  record_timer,   \* self._record_timer: 0 is None, else a timer object
  tpc,            \* per timer object: "none" (no such object, or cancelled or
                  \* finished), "pending", or its position in _schedule_record
  gui_in,         \* the timer object in whose place the window thread runs
                  \* _schedule_record from start_recording, else 0
  \* one BrooksDriver taken by itself
  driver,         \* the driver object with the buffers of its slave
  last_call,      \* the last call made on it: its arguments and what it
                  \* returned
  \* EtherCATManager.get_full_scale
  scale_seen      \* <<>> before any call, else <<c>>: the index of the last
                  \* call and what it returned

mgrVars == <<state, master, adapter, drv, drivers, cyclic_thread, stop_event, thr,
             cpc, ci, cn, nconn, result, steps, slave_count, actual_state>>
storeVars == <<current_data, history, appended, nupd>>
recVars == <<is_recording, file, writer, buffer, disk, start_result, nrows,
             flushes, session>>
dmVars == <<dm_lock, upd, committed, seen, record_timer, tpc, gui_in>>
unitVars == <<driver, last_call>>
askVars == <<scale_seen>>
vars == <<mgrVars, storeVars, recVars, dmVars, unitVars, askVars>>

\* thread objects: one per thread that can be alive, an object whose thread
\* has exited is taken again for the next thread
Threads == 1..MaxAlive
\* list objects: the one self.drivers refers to and those the loops of the
\* threads still hold
Lists == 1..(MaxAlive + 1)

\* a cyclic thread that was never started
NoThread ==
  [pc |-> "none", i |-> 0, ref |-> 0, v |-> Num(0), batch |-> <<>>,
   raised |-> FALSE, reported |-> FALSE, pub |-> FALSE, trace |-> <<>>]

\* threading.Thread.is_alive()
IsAlive(t) == thr[t].pc \notin {"none", "exited"}

\* the content of the list self.drivers refers to
DriverList == IF drivers = 0 THEN <<>> ELSE drv[drivers]
\* the content of the list a cyclic thread iterates over
ListOf(ref) == IF ref = 0 THEN <<>> ELSE drv[ref]

\* a drivers list lives while self.drivers or the loop of a cyclic thread
\* refers to it; d, th and cur are the lists, the threads and self.drivers
Collect(d, th, cur) ==
  [g \in Lists |-> IF g = cur \/ \E t \in Threads : th[t].ref = g THEN d[g] ELSE <<>>]

\* a list object nothing refers to once self.drivers is rebound
FreeList == CHOOSE g \in Lists :
  /\ \A t \in Threads : thr[t].ref # g
  /\ \A h \in Lists : (\A t \in Threads : thr[t].ref # h) => g <= h

\* a thread object whose thread is not running
FreeThread == CHOOSE t \in Threads :
  /\ ~IsAlive(t)
  /\ \A u \in Threads : ~IsAlive(u) => t <= u

AllSteps == {"open", "config", "drivers", "map", "dc", "safeop", "scheduler",
             "opreq", "opwait"}

MgrInit ==
  /\ state = "disconnected"
  /\ master = "none"
  /\ adapter = "none"
  /\ drv = [g \in Lists |-> <<>>]
  /\ drivers = 0
  /\ cyclic_thread = 0
  /\ stop_event = FALSE
  /\ thr = [t \in Threads |-> NoThread]
  /\ cpc = "idle"
  /\ ci = 0
  /\ cn = 0
  /\ nconn = 0
  /\ result = "none"
  /\ steps = {}
  /\ slave_count = 0
  /\ actual_state = "none"

(***************************************************************************)
(* EtherCATManager.connect                                                 *)
(***************************************************************************)
\* the return of connect: its locals are gone
ConnectReturn(st, res) ==
  /\ state' = st
  /\ result' = res
  /\ cpc' = "idle"
  /\ ci' = 0
  /\ cn' = 0
  /\ slave_count' = 0
  /\ actual_state' = "none"

\* a return that would hand back (True, msg) on a failure path
ConnectFailedOk(st) ==
  /\ ConnectReturn(st, "ok")
  /\ steps' = {}
\* a return of connect with (False, msg)
ConnectFailed(st) ==
  /\ ConnectReturn(st, "fail")
  /\ steps' = {}

\* an except branch that would leave the state CONNECTED
ConnectExceptConnected(closeOk) ==
  /\ ConnectFailed("connected")
  /\ adapter' = IF closeOk THEN "closed" ELSE adapter
\* the except branch of connect: state ERROR, best-effort close, (False, msg)
ConnectExcept(closeOk) ==
  /\ ConnectFailed("error")
  /\ adapter' = IF closeOk THEN "closed" ELSE adapter

\* state = CONNECTING ; self.master = pysoem.Master()
ConnectBegin(n) ==
  /\ cpc = "idle"
  /\ nconn < MaxConnects
  /\ Cardinality({t \in Threads : IsAlive(t)}) < MaxAlive
  /\ nconn' = nconn + 1
  /\ state' = "connecting"
  /\ master' = "fresh"
  /\ adapter' = "new"
  /\ cn' = n
  /\ ci' = 0
  /\ steps' = {}
  /\ result' = "none"
  /\ slave_count' = 0
  /\ actual_state' = "none"
  /\ cpc' = "c_open"
  /\ UNCHANGED <<drv, drivers, cyclic_thread, stop_event, thr>>

\* self.master.open(self.adapter): it returns (ok) or raises, and then the
\* close() of the except branch returns (closeOk) or raises
ConnectOpenWith(ok, closeOk) ==
  /\ cpc = "c_open"
  /\ IF ok
     THEN /\ adapter' = "open"
          /\ steps' = steps \cup {"open"}
          /\ cpc' = "c_init"
          /\ UNCHANGED <<state, result, ci, cn, slave_count, actual_state>>
     ELSE ConnectExcept(closeOk)
  /\ UNCHANGED <<master, drv, drivers, cyclic_thread, stop_event, thr, nconn>>

ConnectOpen == \E ok \in BOOLEAN, closeOk \in BOOLEAN : ConnectOpenWith(ok, closeOk)

\* slave_count = self.master.config_init() ; the check against
\* num_controllers ; self.drivers = [] ; config_init() returns sc (ok) or
\* raises, the close() of the short-count branch returns (closeOk) or raises
\* into the except branch, whose close() returns (closeAgainOk) or raises
ConnectInitWith(ok, sc, closeOk, closeAgainOk) ==
  /\ cpc = "c_init"
  /\ IF ~ok
     THEN /\ ConnectExcept(closeOk)
          /\ UNCHANGED <<drv, drivers, master>>
     ELSE IF sc < cn
     THEN \* self.master.close() ; state = ERROR ; return False
          /\ IF closeOk
             THEN /\ ConnectFailed("error")
                  /\ adapter' = "closed"
             ELSE ConnectExcept(closeAgainOk)
          /\ UNCHANGED <<drv, drivers, master>>
     ELSE /\ slave_count' = sc
          /\ steps' = steps \cup {"config"}
          /\ drivers' = FreeList
          /\ drv' = Collect([drv EXCEPT ![FreeList] = <<>>], thr, FreeList)
          /\ master' = "bound"
          /\ ci' = 0
          /\ cpc' = "c_drivers"
          /\ UNCHANGED <<state, adapter, result, cn, actual_state>>
  /\ UNCHANGED <<cyclic_thread, stop_event, thr, nconn>>

ConnectInit ==
  \E ok \in BOOLEAN, sc \in 0..MaxSlaves, closeOk \in BOOLEAN,
     closeAgainOk \in BOOLEAN : ConnectInitWith(ok, sc, closeOk, closeAgainOk)

\* driver = BrooksDriver(self.master.slaves[i], i) ; self.drivers.append(driver)
ConnectDriver ==
  /\ cpc = "c_drivers"
  /\ ci < cn
  /\ \E reply \in SdoReplies :
       drv' = [drv EXCEPT ![drivers] = Append(@, NewDriver(ci, reply))]
  /\ ci' = ci + 1
  /\ IF ci + 1 = cn
     THEN /\ steps' = steps \cup {"drivers"}
          /\ cpc' = "c_map"
     ELSE UNCHANGED <<steps, cpc>>
  /\ UNCHANGED <<state, master, adapter, drivers, cyclic_thread, stop_event, thr,
                 cn, nconn, result, slave_count, actual_state>>

\* config_map() gives every slave of the master its process-data buffers
MapSlaves(ds) ==
  [j \in 1..Len(ds) |->
     [ds[j] EXCEPT !.output = OutFrame(Num(0)),
                   !.input = InFrame(InputFrameLen, 0, 0, 0)]]

\* self.master.config_map()
ConnectMap ==
  /\ cpc = "c_map"
  /\ \E ok \in BOOLEAN, closeOk \in BOOLEAN :
       IF ok
       THEN /\ drv' = [drv EXCEPT ![drivers] = MapSlaves(@)]
            /\ steps' = steps \cup {"map"}
            /\ cpc' = "c_dc"
            /\ UNCHANGED <<state, adapter, result, ci, cn, slave_count, actual_state>>
       ELSE /\ ConnectExcept(closeOk)
            /\ UNCHANGED drv
  /\ UNCHANGED <<master, drivers, cyclic_thread, stop_event, thr, nconn>>

\* self.master.config_dc()
ConnectDc ==
  /\ cpc = "c_dc"
  /\ \E ok \in BOOLEAN, closeOk \in BOOLEAN :
       IF ok
       THEN /\ steps' = steps \cup {"dc"}
            /\ cpc' = "c_safeop"
            /\ UNCHANGED <<state, adapter, result, ci, cn, slave_count, actual_state>>
       ELSE ConnectExcept(closeOk)
  /\ UNCHANGED <<master, drv, drivers, cyclic_thread, stop_event, thr, nconn>>

\* a connect that would request OP right after the Safe-Operational wait,
\* without starting the cyclic thread
ConnectSafeOpThenOp ==
  /\ cpc = "c_safeop"
  /\ \E ok \in BOOLEAN, closeOk \in BOOLEAN, st \in {"preop", "safeop"} :
       IF ok
       THEN /\ actual_state' = st
            /\ steps' = steps \cup {"safeop"}
            /\ cpc' = "c_opreq"
            /\ UNCHANGED <<state, adapter, result, ci, cn, slave_count>>
       ELSE ConnectExcept(closeOk)
  /\ UNCHANGED <<master, drv, drivers, cyclic_thread, stop_event, thr, nconn>>
\* self.master.state_check(pysoem.SAFEOP_STATE, TIMEOUT_SAFEOP): the state it
\* returns is dropped
ConnectSafeOp ==
  /\ cpc = "c_safeop"
  /\ \E ok \in BOOLEAN, closeOk \in BOOLEAN, st \in {"preop", "safeop"} :
       IF ok
       THEN /\ actual_state' = st
            /\ steps' = steps \cup {"safeop"}
            /\ cpc' = "c_start"
            /\ UNCHANGED <<state, adapter, result, ci, cn, slave_count>>
       ELSE ConnectExcept(closeOk)
  /\ UNCHANGED <<master, drv, drivers, cyclic_thread, stop_event, thr, nconn>>

\* self._stop_event.clear() ; the thread is created and started ; sleep(0.5)
ConnectStart ==
  /\ cpc = "c_start"
  /\ stop_event' = FALSE
  /\ cyclic_thread' = FreeThread
  /\ thr' = [thr EXCEPT ![FreeThread] = [NoThread EXCEPT !.pc = "top"]]
  /\ steps' = steps \cup {"scheduler"}
  /\ cpc' = "c_opreq"
  /\ UNCHANGED <<state, master, adapter, drv, drivers, ci, cn, nconn, result,
                 slave_count, actual_state>>

\* self.master.state = pysoem.OP_STATE ; self.master.write_state()
ConnectOpReq ==
  /\ cpc = "c_opreq"
  /\ \E ok \in BOOLEAN, closeOk \in BOOLEAN :
       IF ok
       THEN /\ steps' = steps \cup {"opreq"}
            /\ cpc' = "c_opwait"
            /\ UNCHANGED <<state, adapter, result, ci, cn, slave_count, actual_state>>
       ELSE ConnectExcept(closeOk)
  /\ UNCHANGED <<master, drv, drivers, cyclic_thread, stop_event, thr, nconn>>

\* an Operational wait that would take any state but OP_STATE as a failure
ConnectOpWaitStrict(ok, closeOk, st) ==
  /\ cpc = "c_opwait"
  /\ IF ok /\ st = "op"
     THEN /\ steps' = steps \cup {"opwait"}
          /\ ConnectReturn("connected", "ok")
          /\ UNCHANGED adapter
     ELSE ConnectExcept(closeOk)
  /\ UNCHANGED <<master, drv, drivers, cyclic_thread, stop_event, thr, nconn>>
\* actual_state = self.master.state_check(pysoem.OP_STATE, TIMEOUT_OP) ; both
\* branches of the test of actual_state set CONNECTED and return True ;
\* state_check returns st (ok) or raises
ConnectOpWaitWith(ok, closeOk, st) ==
  /\ cpc = "c_opwait"
  /\ IF ok
     THEN /\ steps' = steps \cup {"opwait"}
          /\ ConnectReturn("connected", IF st = "op" THEN "ok" ELSE "ok_state")
          /\ UNCHANGED adapter
     ELSE ConnectExcept(closeOk)
  /\ UNCHANGED <<master, drv, drivers, cyclic_thread, stop_event, thr, nconn>>

ConnectOpWait ==
  \E ok \in BOOLEAN, closeOk \in BOOLEAN, st \in {"safeop", "op"} :
    ConnectOpWaitWith(ok, closeOk, st)

(***************************************************************************)
(* EtherCATManager.disconnect                                              *)
(***************************************************************************)
\* self._stop_event.set()
DisconnectBegin ==
  /\ cpc = "idle"
  /\ stop_event' = TRUE
  /\ cpc' = "d_join"
  /\ result' = "none"
  /\ UNCHANGED <<state, master, adapter, drv, drivers, cyclic_thread, thr, ci, cn,
                 nconn, steps, slave_count, actual_state>>

\* a join that would go on to the bus calls without the test of self.master
DisconnectJoinAlways ==
  /\ cpc = "d_join"
  /\ cpc' = "d_zero"
  /\ ci' = 0
  /\ UNCHANGED <<state, master, adapter, drv, drivers, cyclic_thread, stop_event,
                 thr, cn, nconn, result, steps, slave_count, actual_state>>
\* the join(timeout=3) of the cyclic thread: it returns when the thread has
\* exited or when the timeout has passed with the thread still alive ; then
\* the test of self.master
DisconnectJoin ==
  /\ cpc = "d_join"
  /\ cpc' = IF master # "none" THEN "d_zero" ELSE "d_clear"
  /\ ci' = 0
  /\ UNCHANGED <<state, master, adapter, drv, drivers, cyclic_thread, stop_event,
                 thr, cn, nconn, result, steps, slave_count, actual_state>>

\* a teardown that would write the zero setpoint to the first driver only
DisconnectZeroFirst ==
  /\ cpc = "d_zero"
  /\ IF ci < Len(DriverList) /\ ci < 1
     THEN \E fault \in WriteFaults :
            /\ drv' = [drv EXCEPT ![drivers][ci + 1] =
                         WriteSetpointDriver(@, Num(0), fault)]
            /\ ci' = ci + 1
            /\ cpc' = IF WriteSetpointResult(drv[drivers][ci + 1], fault) = "raised"
                      THEN "d_clear" ELSE "d_zero"
     ELSE /\ cpc' = "d_init"
          /\ UNCHANGED <<drv, ci>>
  /\ UNCHANGED <<state, master, adapter, drivers, cyclic_thread, stop_event, thr,
                 cn, nconn, result, steps, slave_count, actual_state>>
\* for driver in self.drivers: driver.write_setpoint(0.0) ; an exception
\* leaves the try block
DisconnectZero ==
  /\ cpc = "d_zero"
  /\ IF ci < Len(DriverList)
     THEN \E fault \in WriteFaults :
            /\ drv' = [drv EXCEPT ![drivers][ci + 1] =
                         WriteSetpointDriver(@, Num(0), fault)]
            /\ ci' = ci + 1
            /\ cpc' = IF WriteSetpointResult(drv[drivers][ci + 1], fault) = "raised"
                      THEN "d_clear" ELSE "d_zero"
     ELSE /\ cpc' = "d_init"
          /\ UNCHANGED <<drv, ci>>
  /\ UNCHANGED <<state, master, adapter, drivers, cyclic_thread, stop_event, thr,
                 cn, nconn, result, steps, slave_count, actual_state>>

\* self.master.state = pysoem.INIT_STATE ; self.master.write_state()
DisconnectInit ==
  /\ cpc = "d_init"
  /\ \E ok \in BOOLEAN : cpc' = IF ok THEN "d_close" ELSE "d_clear"
  /\ UNCHANGED <<state, master, adapter, drv, drivers, cyclic_thread, stop_event,
                 thr, ci, cn, nconn, result, steps, slave_count, actual_state>>

\* self.master.close()
DisconnectClose ==
  /\ cpc = "d_close"
  /\ \E ok \in BOOLEAN : adapter' = IF ok THEN "closed" ELSE adapter
  /\ cpc' = "d_clear"
  /\ UNCHANGED <<state, master, drv, drivers, cyclic_thread, stop_event, thr, ci,
                 cn, nconn, result, steps, slave_count, actual_state>>

\* a return of disconnect that would skip the last three statements when
\* the teardown did not close the adapter
DisconnectClearKeep ==
  /\ cpc = "d_clear"
  /\ IF master # "none" /\ adapter # "closed"
     THEN UNCHANGED <<drv, master, adapter, state>>
     ELSE /\ drv' = IF drivers = 0 THEN drv ELSE [drv EXCEPT ![drivers] = <<>>]
          /\ master' = "none"
          /\ adapter' = "none"
          /\ state' = "disconnected"
  /\ cpc' = "idle"
  /\ ci' = 0
  /\ steps' = {}
  /\ UNCHANGED <<drivers, cyclic_thread, stop_event, thr, cn, nconn, result,
                 slave_count, actual_state>>
\* self.drivers.clear() ; self.master = None ; state = DISCONNECTED ; return
DisconnectClear ==
  /\ cpc = "d_clear"
  /\ drv' = IF drivers = 0 THEN drv ELSE [drv EXCEPT ![drivers] = <<>>]
  /\ master' = "none"
  /\ adapter' = "none"
  /\ state' = "disconnected"
  /\ cpc' = "idle"
  /\ ci' = 0
  /\ steps' = {}
  /\ UNCHANGED <<drivers, cyclic_thread, stop_event, thr, cn, nconn, result,
                 slave_count, actual_state>>

(***************************************************************************)
(* EtherCATManager.set_setpoint, called by the control thread              *)
(***************************************************************************)
SetpointInputs == {Num(-5), Num(7), Num(50000), NaN, PosInf, NegInf}

SetSetpoint(controller_index, setpoint) ==
  /\ cpc = "idle"
  /\ IF 0 <= controller_index /\ controller_index < Len(DriverList)
     THEN \E fault \in WriteFaults :
            drv' = [drv EXCEPT ![drivers][controller_index + 1] =
                      WriteSetpointDriver(@, setpoint, fault)]
     ELSE UNCHANGED drv
  /\ UNCHANGED <<state, master, adapter, drivers, cyclic_thread, stop_event, thr,
                 cpc, ci, cn, nconn, result, steps, slave_count, actual_state>>

(***************************************************************************)
(* EtherCATManager.get_full_scale, called by the control thread            *)
(***************************************************************************)
\* what indexing a list out of its range gives the caller
IndexError == [k |-> "raised", v |-> 0]

\* get_full_scale without the lower limit: a negative index of a Python list
\* counts from its end
GetFullScaleWrap(controller_index) ==
  IF controller_index < Len(DriverList)
  THEN IF controller_index >= 0
       THEN DriverList[controller_index + 1].full_scale
       ELSE IF Len(DriverList) + controller_index >= 0
            THEN DriverList[Len(DriverList) + controller_index + 1].full_scale
            ELSE IndexError
  ELSE Num(DefaultFullScale)

\* what get_full_scale(controller_index) returns
GetFullScale(controller_index) ==
  IF 0 <= controller_index /\ controller_index < Len(DriverList)
  THEN DriverList[controller_index + 1].full_scale
  ELSE Num(DefaultFullScale)

\* the call get_full_scale(controller_index)
GetFullScaleCall(controller_index) ==
  /\ cpc = "idle"
  /\ scale_seen' = <<[index |-> controller_index,
                      ret |-> GetFullScale(controller_index)]>>
  /\ UNCHANGED mgrVars

(***************************************************************************)
(* EtherCATManager._cyclic_task, thread t                                  *)
(***************************************************************************)
\* an exception that would end the thread unreported
FailExit(t) ==
  [NoThread EXCEPT !.pc = "exited", !.raised = TRUE]
\* the except branch of the loop body: the error callback gets str(e) ;
\* then time.sleep(CYCLE_TIME) and back to the loop condition
Fail(t) ==
  [thr[t] EXCEPT !.pc = "top", !.i = 0, !.ref = 0, !.v = Num(0),
                 !.batch = <<>>, !.raised = TRUE, !.reported = TRUE,
                 !.trace = <<>>]

\* a loop condition that would not look at the stop event
LoopTopNoCheck(t) ==
  [thr[t] EXCEPT !.pc = "enc", !.i = 0, !.ref = drivers,
                 !.raised = FALSE, !.reported = FALSE, !.pub = FALSE]
\* while not self._stop_event.is_set(): ... for driver in self.drivers
LoopTopStep(t) ==
  IF stop_event
  THEN [NoThread EXCEPT !.pc = "exited"]
  ELSE [thr[t] EXCEPT !.pc = "enc", !.i = 0, !.ref = drivers,
                      !.raised = FALSE, !.reported = FALSE, !.pub = FALSE]

\* a step of thread t that takes it to nt and the lists to nd
ThreadStep(t, nt, nd) ==
  /\ thr' = [thr EXCEPT ![t] = nt]
  /\ drv' = Collect(nd, [thr EXCEPT ![t] = nt], drivers)
  /\ UNCHANGED <<state, master, adapter, drivers, cyclic_thread, stop_event,
                 cpc, ci, cn, nconn, result, steps, slave_count, actual_state>>

LoopTop(t) ==
  /\ thr[t].pc = "top"
  /\ ThreadStep(t, LoopTopStep(t), drv)

\* the next driver of the first loop and its get_setpoint(), or the end of
\* the loop
EncGet(t) ==
  /\ thr[t].pc = "enc"
  /\ ThreadStep(t,
       IF thr[t].i < Len(ListOf(thr[t].ref))
       THEN [thr[t] EXCEPT !.pc = "write", !.i = @ + 1,
                           !.v = drv[thr[t].ref][thr[t].i + 1].setpoint]
       ELSE [thr[t] EXCEPT !.pc = "send", !.i = 0, !.ref = 0],
       drv)

\* driver.write_setpoint(v) on the driver the thread holds; a driver that
\* is no longer in its list is reachable from this thread only
EncWrite(t) ==
  /\ thr[t].pc = "write"
  /\ LET ref == thr[t].ref
         i == thr[t].i
         back == [thr[t] EXCEPT !.pc = "enc", !.v = Num(0),
                                !.trace = Append(@, "push")]
     IN \E fault \in WriteFaults :
          IF i <= Len(ListOf(ref))
          THEN ThreadStep(t,
                 IF WriteSetpointResult(drv[ref][i], fault) = "raised"
                 THEN Fail(t) ELSE back,
                 [drv EXCEPT ![ref][i] = WriteSetpointDriver(@, thr[t].v, fault)])
          ELSE ThreadStep(t, IF fault = "raise" THEN Fail(t) ELSE back, drv)

\* self.master.send_processdata(): AttributeError when self.master is None
Send(t) ==
  /\ thr[t].pc = "send"
  /\ \E ok \in BOOLEAN :
       ThreadStep(t,
         IF master = "none" \/ ~ok THEN Fail(t)
         ELSE [thr[t] EXCEPT !.pc = "recv", !.trace = Append(@, "tx")],
         drv)

\* the input buffers of the mapped slaves after one receive
Received(ds, frames) ==
  [j \in 1..Len(ds) |->
     IF ds[j].output.len = 0 THEN ds[j] ELSE [ds[j] EXCEPT !.input = frames[j]]]

\* self.master.receive_processdata(TIMEOUT_RECEIVE) ; controllers_data = []
\* ; for driver in self.drivers
Recv(t) ==
  /\ thr[t].pc = "recv"
  /\ \E ok \in BOOLEAN :
       IF master = "none" \/ ~ok
       THEN ThreadStep(t, Fail(t), drv)
       ELSE LET next == [thr[t] EXCEPT !.pc = "dec", !.i = 0, !.ref = drivers,
                                        !.batch = <<>>,
                                        !.trace = Append(@, "rx")]
            IN IF master = "bound"
               THEN \E frames \in [1..Len(drv[drivers]) -> InputFrames] :
                      ThreadStep(t, next, [drv EXCEPT ![drivers] = Received(@, frames)])
               ELSE ThreadStep(t, next, drv)

\* the next driver of the second loop, data = driver.read_data() and
\* controllers_data.append(data), or the end of the loop followed by
\* self._on_data_callback(controllers_data), time.sleep(CYCLE_TIME) and the
\* way back to the loop condition
Dec(t) ==
  /\ thr[t].pc = "dec"
  /\ \E ok \in BOOLEAN :
       ThreadStep(t,
         IF thr[t].i < Len(ListOf(thr[t].ref))
         THEN IF ok
              THEN [thr[t] EXCEPT !.i = @ + 1,
                      !.batch = Append(@, ReadData(drv[thr[t].ref][thr[t].i + 1])),
                      !.trace = Append(@, "dec")]
              ELSE Fail(t)
         ELSE [thr[t] EXCEPT !.pc = "top", !.i = 0, !.ref = 0, !.pub = TRUE,
                             !.batch = <<>>, !.trace = <<>>],
         drv)

CyclicTask(t) ==
  \/ LoopTop(t)
  \/ EncGet(t)
  \/ EncWrite(t)
  \/ Send(t)
  \/ Recv(t)
  \/ Dec(t)

(***************************************************************************)
(* DataManager                                                             *)
(***************************************************************************)
Channels == 1..NumChannels

\* a history entry of DataManager.__init__: five deques
EmptyHistory ==
  [time |-> <<>>, flow |-> <<>>, pressure |-> <<>>, temperature |-> <<>>,
   setpoint |-> <<>>]

\* DataManager.__init__(num_controllers, max_points) as the window builds it
StoreInit ==
  /\ history = [i \in Channels |-> EmptyHistory]
  /\ current_data = [i \in Channels |-> <<>>]
  /\ appended = [i \in Channels |-> <<>>]
  /\ nupd = 0

\* append to a list that grows without limit
ListAppend(q, x, maxlen) == Append(q, x)
\* deque(maxlen).append: a full deque drops its oldest element
DequeAppend(q, x, maxlen) ==
  IF Len(q) + 1 > maxlen THEN Tail(Append(q, x)) ELSE Append(q, x)

\* the five appends of update_data for one channel
HistoryAppend(h, data) ==
  [time |-> DequeAppend(h.time, data.timestamp, MaxPoints),
   flow |-> DequeAppend(h.flow, data.flow, MaxPoints),
   pressure |-> DequeAppend(h.pressure, data.pressure, MaxPoints),
   temperature |-> DequeAppend(h.temperature, data.temperature, MaxPoints),
   setpoint |-> DequeAppend(h.setpoint, data.setpoint, MaxPoints)]

\* the body of the loop of update_data for position i of controllers_data
Updates(controllers_data, i) ==
  /\ i <= Len(controllers_data)
  /\ controllers_data[i] # <<>>
  /\ i - 1 < NumChannels

\* update_data storing every slot of the list, None included
UpdateDataStoreNone(controllers_data) ==
  /\ nupd < MaxUpdates
  /\ nupd' = nupd + 1
  /\ current_data' = [i \in Channels |->
       IF i <= Len(controllers_data) THEN controllers_data[i] ELSE current_data[i]]
  /\ history' = [i \in Channels |->
       IF Updates(controllers_data, i)
       THEN HistoryAppend(history[i], controllers_data[i][1]) ELSE history[i]]
  /\ appended' = [i \in Channels |->
       IF Updates(controllers_data, i)
       THEN Append(appended[i], controllers_data[i][1]) ELSE appended[i]]

\* DataManager.update_data
UpdateData(controllers_data) ==
  /\ nupd < MaxUpdates
  /\ nupd' = nupd + 1
  /\ current_data' = [i \in Channels |->
       IF Updates(controllers_data, i) THEN controllers_data[i] ELSE current_data[i]]
  /\ history' = [i \in Channels |->
       IF Updates(controllers_data, i)
       THEN HistoryAppend(history[i], controllers_data[i][1]) ELSE history[i]]
  /\ appended' = [i \in Channels |->
       IF Updates(controllers_data, i)
       THEN Append(appended[i], controllers_data[i][1]) ELSE appended[i]]

\* DataManager.get_current_data: <<>> is None
GetCurrentData(controller_index) ==
  IF 0 <= controller_index /\ controller_index < NumChannels
  THEN current_data[controller_index + 1] ELSE <<>>

\* DataManager.get_history: <<>> is None, <<h>> the dict of five lists
GetHistory(controller_index) ==
  IF 0 <= controller_index /\ controller_index < NumChannels
  THEN <<history[controller_index + 1]>> ELSE <<>>

\* samples a scheduler cycle can hand over at time ts
Samples(ts) ==
  {[timestamp |-> ts, flow |-> f, pressure |-> 14, temperature |-> 23,
    setpoint |-> Num(7)] : f \in {0, 15000}}

\* the lists a scheduler cycle can hand over at time ts: one entry per driver
\* (more drivers than channels included), None where read_data gave None
Batches(ts) ==
  LET entry == {<<>>} \cup {<<x>> : x \in Samples(ts)}
  IN UNION {[1..n -> entry] : n \in 0..(NumChannels + 1)}

(***************************************************************************)
(* DataRecorder                                                            *)
(***************************************************************************)
\* destinations of a recording
Paths == {"a.csv", "b.csv"}

\* one cell of a CSV row: the value v formatted with the given number of
\* decimals (0: text written as it is)
Cell(v, digits) == [digits |-> digits, v |-> v]
Text(name, k) == [k |-> name, v |-> k]

\* the header row of start_recording
ColumnNames == <<"Flow_SCCM", "Pressure_psi", "Temperature_C", "Setpoint_SCCM">>
Header(num_controllers) ==
  [k \in 1..(2 + 4 * num_controllers) |->
     IF k = 1 THEN Cell(Text("Timestamp", 0), 0)
     ELSE IF k = 2 THEN Cell(Text("DateTime", 0), 0)
     ELSE Cell(Text(ColumnNames[((k - 3) % 4) + 1], ((k - 3) \div 4) + 1), 0)]

\* the four cells of record_data for one entry of controllers_data
RowCells(data) ==
  IF data # <<>>
  THEN <<Cell(Num(data[1].flow), 2), Cell(Num(data[1].pressure), 4),
         Cell(Num(data[1].temperature), 2), Cell(data[1].setpoint, 2)>>
  ELSE <<Cell(Text("", 0), 0), Cell(Text("", 0), 0), Cell(Text("", 0), 0),
         Cell(Text("", 0), 0)>>

RECURSIVE RowExtend(_, _)
RowExtend(row, controllers_data) ==
  IF controllers_data = <<>> THEN row
  ELSE RowExtend(row \o RowCells(Head(controllers_data)), Tail(controllers_data))

\* the row record_data builds at time ts
Row(ts, controllers_data) ==
  RowExtend(<<Cell(Num(ts), 3), Cell(Text("datetime", ts), 3)>>, controllers_data)

\* DataRecorder.__init__
RecInit ==
  /\ is_recording = FALSE
  /\ file = <<>>
  /\ writer = FALSE
  /\ buffer = <<>>
  /\ disk = [p \in Paths |-> <<>>]
  /\ start_result = "none"
  /\ nrows = 0
  /\ flushes = <<>>
  /\ session = <<>>

\* self._file is a file object that is open
FileOpen == file # <<>> /\ ~file[1].closed

\* DataRecorder.start_recording(filepath, num_controllers); open() succeeds
\* or raises, the writes to a file that is open succeed
StartRecording(filepath, num_controllers, openOk) ==
  /\ IF openOk
     THEN /\ file' = <<[path |-> filepath, closed |-> FALSE]>>
          /\ writer' = TRUE
          /\ disk' = [disk EXCEPT ![filepath] = <<Header(num_controllers)>>]
          /\ is_recording' = TRUE
          /\ buffer' = <<>>
          /\ start_result' = "true"
          /\ flushes' = <<>>
          /\ session' = <<>>
     ELSE /\ file' = IF file # <<>> THEN <<[file[1] EXCEPT !.closed = TRUE]>> ELSE file
          /\ start_result' = "false"
          /\ UNCHANGED <<writer, disk, is_recording, buffer, flushes, session>>
  /\ UNCHANGED nrows

\* _flush_buffer that leaves the rows it has written in the buffer
FlushBufferKeep(b) ==
  IF writer /\ b # <<>> /\ FileOpen
  THEN [buffer |-> b, disk |-> [disk EXCEPT ![file[1].path] = @ \o b],
        flushes |-> Append(flushes, Len(b))]
  ELSE [buffer |-> b, disk |-> disk, flushes |-> flushes]
\* DataRecorder._flush_buffer on the buffer b: writerows on a closed file
\* raises, which _flush_buffer swallows with the buffer as it was
FlushBuffer(b) ==
  IF writer /\ b # <<>> /\ FileOpen
  THEN [buffer |-> <<>>, disk |-> [disk EXCEPT ![file[1].path] = @ \o b],
        flushes |-> Append(flushes, Len(b))]
  ELSE [buffer |-> b, disk |-> disk, flushes |-> flushes]

\* record_data past its test of the flag: the row is built and, under the
\* lock of the recorder, appended, and a full buffer is flushed
RecordRow(controllers_data) ==
  LET row == Row(nrows + 1, controllers_data)
      b == Append(buffer, row)
      f == IF Len(b) >= BufferSize THEN FlushBuffer(b)
           ELSE [buffer |-> b, disk |-> disk, flushes |-> flushes]
  IN /\ nrows' = nrows + 1
     /\ session' = Append(session, row)
     /\ buffer' = f.buffer
     /\ disk' = f.disk
     /\ flushes' = f.flushes

\* DataRecorder.record_data
RecordData(controllers_data) ==
  /\ nrows < MaxRows
  /\ IF ~is_recording \/ ~writer
     THEN UNCHANGED <<buffer, disk, flushes, session, nrows>>
     ELSE RecordRow(controllers_data)
  /\ UNCHANGED <<is_recording, file, writer, start_result>>

\* a stop_recording that would empty the buffer whether or not its rows
\* were written
StopRecordingDrop ==
  /\ is_recording' = FALSE
  /\ LET f == IF buffer # <<>> THEN FlushBuffer(buffer)
              ELSE [buffer |-> buffer, disk |-> disk, flushes |-> flushes]
     IN /\ buffer' = <<>>
        /\ disk' = f.disk
        /\ flushes' = f.flushes
  /\ IF file # <<>>
     THEN file' = <<>> /\ writer' = FALSE
     ELSE UNCHANGED <<file, writer>>
  /\ UNCHANGED <<start_result, nrows, session>>
\* DataRecorder.stop_recording
StopRecording ==
  /\ is_recording' = FALSE
  /\ LET f == IF buffer # <<>> THEN FlushBuffer(buffer)
              ELSE [buffer |-> buffer, disk |-> disk, flushes |-> flushes]
     IN /\ buffer' = f.buffer
        /\ disk' = f.disk
        /\ flushes' = f.flushes
  /\ IF file # <<>>
     THEN file' = <<>> /\ writer' = FALSE
     ELSE UNCHANGED <<file, writer>>
  /\ UNCHANGED <<start_result, nrows, session>>

\* what the record timer hands to record_data: self.current_data
RecBatches ==
  {[i \in Channels |-> <<>>],
   [i \in Channels |-> IF i = 1
      THEN <<[timestamp |-> 0, flow |-> 15000, pressure |-> 14, temperature |-> 23,
              setpoint |-> Num(7)]>>
      ELSE <<>>]}

(***************************************************************************)
(* One BrooksDriver with its slave.                                        *)
(***************************************************************************)
\* replies of slave.sdo_read to the constructor of the driver taken by
\* itself: those of SdoReplies, the limits of the accepted range, values
\* next to them, an infinite value, and a reply longer than four bytes
DriverReplies ==
  SdoReplies \cup
  {[exc |-> FALSE, len |-> 4, val |-> Num(MinFullScale)],
   [exc |-> FALSE, len |-> 4, val |-> Num(MaxFullScale)],
   [exc |-> FALSE, len |-> 4, val |-> Num(MaxFullScale + 1)],
   [exc |-> FALSE, len |-> 4, val |-> Num(-20000)],
   [exc |-> FALSE, len |-> 4, val |-> PosInf],
   [exc |-> FALSE, len |-> 8, val |-> Num(20000)],
   [exc |-> TRUE, len |-> 4, val |-> Num(20000)],
   [exc |-> FALSE, len |-> 3, val |-> Num(20000)]}

\* input buffers of the slave: none, too short, 13 bytes and longer
DriverFrames ==
  {InFrame(n, 5000, 14, 23) : n \in {0, 5, 12}} \cup
  {InFrame(n, raw, 14, 23) : n \in {13, 14}, raw \in {0, 5000, 10000}}

\* before any call
NoCall ==
  [op |-> "none", reply |-> [exc |-> FALSE, len |-> 0, val |-> Num(0)],
   setpoint |-> Num(0), ret |-> "none", data |-> <<>>]

\* BrooksDriver(slave, 0) on a slave whose object read times out
DriverInit ==
  /\ driver = NewDriver(0, [exc |-> TRUE, len |-> 0, val |-> Num(0)])
  /\ last_call = [NoCall EXCEPT !.op = "init", !.reply.exc = TRUE]

\* BrooksDriver(slave, 0): the constructor with the reply of the object read
DriverNew(reply) ==
  /\ driver' = NewDriver(0, reply)
  /\ last_call' = [NoCall EXCEPT !.op = "init", !.reply = reply]

\* config_map() of the master gives the slave its buffers
DriverMap ==
  /\ driver.output.len = 0
  /\ driver' = MapSlaves(<<driver>>)[1]
  /\ last_call' = [NoCall EXCEPT !.op = "map"]

\* an exchange leaves frame in the input buffer of the slave
DriverReceive(frame) ==
  /\ driver.output.len # 0
  /\ driver' = [driver EXCEPT !.input = frame]
  /\ last_call' = [NoCall EXCEPT !.op = "receive"]

\* driver.write_setpoint(setpoint)
DriverWrite(setpoint, fault) ==
  /\ driver' = WriteSetpointDriver(driver, setpoint, fault)
  /\ last_call' = [NoCall EXCEPT !.op = "write", !.setpoint = setpoint,
                                 !.ret = WriteSetpointResult(driver, fault)]

\* driver.read_data()
DriverRead ==
  /\ last_call' = [NoCall EXCEPT !.op = "read", !.data = ReadData(driver)]
  /\ UNCHANGED driver

(***************************************************************************)
(* DataManager and the threads that call it: the cyclic thread calls       *)
(* update_data (through the data callback), the window thread reads and    *)
(* starts and stops recordings, and every threading.Timer runs             *)
(* _schedule_record on a thread of its own.                                *)
(***************************************************************************)
\* timer objects
Timers == 1..MaxTimers

\* the position of update_data when no call is in progress
NoUpdate == [pc |-> "idle", i |-> 0, f |-> 0, batch |-> <<>>]
\* what a reader has returned before any read
NoRead == [op |-> "none", current |-> <<>>, history |-> <<>>]

\* update_data(controllers_data) applied at once to the store c
Published(c, controllers_data) ==
  [current_data |-> [i \in Channels |->
     IF Updates(controllers_data, i) THEN controllers_data[i]
     ELSE c.current_data[i]],
   history |-> [i \in Channels |->
     IF Updates(controllers_data, i)
     THEN HistoryAppend(c.history[i], controllers_data[i][1])
     ELSE c.history[i]]]

\* DataManager.__init__: no timer, the lock free
DmInit ==
  /\ dm_lock = "free"
  /\ upd = NoUpdate
  /\ committed = [current_data |-> [i \in Channels |-> <<>>],
                  history |-> [i \in Channels |-> EmptyHistory]]
  /\ seen = NoRead
  /\ record_timer = 0
  /\ tpc = [k \in Timers |-> "none"]
  /\ gui_in = 0

\* what the data callback hands to update_data at time ts: None or one
\* sample per driver, for as many drivers as channels or for one more
DmBatches(ts) ==
  LET x == <<[timestamp |-> ts, flow |-> 15000, pressure |-> 14,
              temperature |-> 23, setpoint |-> Num(7)]>>
  IN {<<x, <<>>>>, <<<<>>, x>>, <<x, x, x>>}

\* the destination the window asks for in a behaviour of DmSpec
DmPaths == {"a.csv"}

\* update_data: with self._lock, entered
DmUpdateBegin(controllers_data) ==
  /\ upd.pc = "idle"
  /\ nupd < MaxPublishes
  /\ dm_lock = "free"
  /\ dm_lock' = "update"
  /\ upd' = [pc |-> "run", i |-> 1, f |-> 0, batch |-> controllers_data]
  /\ nupd' = nupd + 1
  /\ UNCHANGED <<current_data, history, appended, committed, seen, record_timer,
                 tpc, gui_in>>

\* the history entry h after statement f of the loop body, f = 1 .. 5
FieldAppend(h, data, f) ==
  IF f = 1 THEN [h EXCEPT !.time = DequeAppend(@, data.timestamp, MaxPoints)]
  ELSE IF f = 2 THEN [h EXCEPT !.flow = DequeAppend(@, data.flow, MaxPoints)]
  ELSE IF f = 3 THEN [h EXCEPT !.pressure = DequeAppend(@, data.pressure, MaxPoints)]
  ELSE IF f = 4
  THEN [h EXCEPT !.temperature = DequeAppend(@, data.temperature, MaxPoints)]
  ELSE [h EXCEPT !.setpoint = DequeAppend(@, data.setpoint, MaxPoints)]

\* update_data: one statement of the loop (f = 0 is the assignment to
\* self.current_data[i], f = 1 .. 5 the appends), the step to the next entry,
\* or the end of the loop, where the lock is released
DmUpdateStep ==
  /\ upd.pc = "run"
  /\ IF upd.i > Len(upd.batch)
     THEN /\ dm_lock' = "free"
          /\ upd' = NoUpdate
          /\ committed' = Published(committed, upd.batch)
          /\ UNCHANGED <<current_data, history, appended>>
     ELSE IF ~Updates(upd.batch, upd.i)
     THEN /\ upd' = [upd EXCEPT !.i = @ + 1]
          /\ UNCHANGED <<dm_lock, committed, current_data, history, appended>>
     ELSE IF upd.f = 0
     THEN /\ current_data' = [current_data EXCEPT ![upd.i] = upd.batch[upd.i]]
          /\ upd' = [upd EXCEPT !.f = 1]
          /\ UNCHANGED <<dm_lock, committed, history, appended>>
     ELSE /\ history' = [history EXCEPT ![upd.i] =
                           FieldAppend(@, upd.batch[upd.i][1], upd.f)]
          /\ IF upd.f = 5
             THEN /\ upd' = [upd EXCEPT !.i = @ + 1, !.f = 0]
                  /\ appended' = [appended EXCEPT ![upd.i] =
                                    Append(@, upd.batch[upd.i][1])]
             ELSE /\ upd' = [upd EXCEPT !.f = @ + 1]
                  /\ UNCHANGED appended
          /\ UNCHANGED <<dm_lock, committed, current_data>>
  /\ UNCHANGED <<nupd, seen, record_timer, tpc, gui_in>>

\* a reader that would not take the lock
DmGetCurrentDataNoLock(controller_index) ==
  /\ gui_in = 0
  /\ seen' = [op |-> "current", current |-> <<GetCurrentData(controller_index)>>,
              history |-> <<>>]
  /\ UNCHANGED <<dm_lock, upd, committed, record_timer, tpc, gui_in>>
\* get_current_data called by the window thread: with self._lock
DmGetCurrentData(controller_index) ==
  /\ gui_in = 0
  /\ dm_lock = "free"
  /\ seen' = [op |-> "current", current |-> <<GetCurrentData(controller_index)>>,
              history |-> <<>>]
  /\ UNCHANGED <<dm_lock, upd, committed, record_timer, tpc, gui_in>>

\* get_history called by the window thread: with self._lock
DmGetHistory(controller_index) ==
  /\ gui_in = 0
  /\ dm_lock = "free"
  /\ seen' = [op |-> "history", current |-> <<>>,
              history |-> <<GetHistory(controller_index)>>]
  /\ UNCHANGED <<dm_lock, upd, committed, record_timer, tpc, gui_in>>

\* a start_recording that would schedule the record task whatever the
\* recorder returned
DmStartRecordingAlways(filepath, openOk, k) ==
  /\ gui_in = 0
  /\ tpc[k] = "none"
  /\ StartRecording(filepath, NumChannels, openOk)
  /\ tpc' = [tpc EXCEPT ![k] = "check"]
  /\ gui_in' = k
  /\ UNCHANGED <<dm_lock, upd, committed, seen, record_timer>>
\* DataManager.start_recording called by the window thread: the recorder is
\* started and, when that succeeded, the window thread goes into
\* _schedule_record, which ends with a timer object k
DmStartRecording(filepath, openOk, k) ==
  /\ gui_in = 0
  /\ openOk => (nrows < MaxRecords /\ tpc[k] = "none")
  /\ StartRecording(filepath, NumChannels, openOk)
  /\ IF start_result' = "true"
     THEN /\ tpc' = [tpc EXCEPT ![k] = "check"]
          /\ gui_in' = k
     ELSE UNCHANGED <<tpc, gui_in>>
  /\ UNCHANGED <<dm_lock, upd, committed, seen, record_timer>>

\* DataManager.stop_recording called by the window thread: the timer
\* self._record_timer refers to is cancelled, which keeps it from firing when
\* it has not fired yet, and the recorder is stopped.  The flag is cleared
\* before the lock of the recorder is taken; a record_data that runs in
\* between sees what it would see before or after the whole call.
DmStopRecording ==
  /\ gui_in = 0
  /\ tpc' = IF record_timer # 0 /\ tpc[record_timer] = "pending"
            THEN [tpc EXCEPT ![record_timer] = "none"] ELSE tpc
  /\ record_timer' = 0
  /\ StopRecording
  /\ UNCHANGED <<dm_lock, upd, committed, seen, gui_in>>

\* the interval of timer k has passed: its thread calls _schedule_record
DmTimerFire(k) ==
  /\ tpc[k] = "pending"
  /\ nrows < MaxRecords
  /\ tpc' = [tpc EXCEPT ![k] = "check"]
  /\ UNCHANGED <<dm_lock, upd, committed, seen, record_timer, gui_in>>

\* _schedule_record: if self.recorder.is_recording
DmCheck(k) ==
  /\ tpc[k] = "check"
  /\ tpc' = [tpc EXCEPT ![k] = IF is_recording THEN "enter" ELSE "none"]
  /\ gui_in' = IF ~is_recording /\ gui_in = k THEN 0 ELSE gui_in
  /\ UNCHANGED <<dm_lock, upd, committed, seen, record_timer>>

\* a record task that would go on without the lock being free
DmRecordEnterNoLock(k) ==
  /\ tpc[k] = "enter"
  /\ IF ~is_recording \/ ~writer
     THEN /\ tpc' = [tpc EXCEPT ![k] = "arm"]
          /\ UNCHANGED dm_lock
     ELSE /\ tpc' = [tpc EXCEPT ![k] = "append"]
          /\ dm_lock' = "record"
  /\ UNCHANGED <<upd, committed, seen, record_timer, gui_in>>
\* _schedule_record: with self._lock, entered, and the test of the flag and
\* the writer at the top of record_data
DmRecordEnter(k) ==
  /\ tpc[k] = "enter"
  /\ dm_lock = "free"
  /\ IF ~is_recording \/ ~writer
     THEN /\ tpc' = [tpc EXCEPT ![k] = "arm"]
          /\ UNCHANGED dm_lock
     ELSE /\ tpc' = [tpc EXCEPT ![k] = "append"]
          /\ dm_lock' = "record"
  /\ UNCHANGED <<upd, committed, seen, record_timer, gui_in>>

\* record_data(self.current_data) past its test, and the lock released
DmRecordAppend(k) ==
  /\ tpc[k] = "append"
  /\ RecordRow(current_data)
  /\ dm_lock' = "free"
  /\ tpc' = [tpc EXCEPT ![k] = "arm"]
  /\ UNCHANGED <<is_recording, file, writer, start_result>>
  /\ UNCHANGED <<upd, committed, seen, record_timer, gui_in>>

\* _schedule_record: the new Timer is stored in self._record_timer and
\* started; the thread that ran the task is done
DmArm(k) ==
  /\ tpc[k] = "arm"
  /\ tpc' = [tpc EXCEPT ![k] = "pending"]
  /\ record_timer' = k
  /\ gui_in' = IF gui_in = k THEN 0 ELSE gui_in
  /\ UNCHANGED <<dm_lock, upd, committed, seen>>

(***************************************************************************)
(* Spec: the manager and its threads.                                      *)
(***************************************************************************)
Init == MgrInit /\ StoreInit /\ RecInit /\ DmInit /\ DriverInit /\ scale_seen = <<>>

\* num_controllers of the k-th connect() call: one channel, and also
\* NumChannels channels for the last call of a behaviour when it is made
\* with no cyclic thread alive
ExpectedCounts(k) ==
  IF k = MaxConnects /\ \A t \in Threads : ~IsAlive(t) THEN {1, NumChannels} ELSE {1}

Connect ==
  \/ \E n \in ExpectedCounts(nconn + 1) : ConnectBegin(n)
  \/ ConnectOpen
  \/ ConnectInit
  \/ ConnectDriver
  \/ ConnectMap
  \/ ConnectDc
  \/ ConnectSafeOp
  \/ ConnectStart
  \/ ConnectOpReq
  \/ ConnectOpWait

Disconnect ==
  \/ DisconnectBegin
  \/ DisconnectJoin
  \/ DisconnectZero
  \/ DisconnectInit
  \/ DisconnectClose
  \/ DisconnectClear

\* a step of cyclic thread t
CyclicStep(t) == CyclicTask(t) /\ UNCHANGED <<storeVars, recVars, dmVars, unitVars, askVars>>

Next ==
  \/ Connect /\ UNCHANGED <<storeVars, recVars, dmVars, unitVars, askVars>>
  \/ Disconnect /\ UNCHANGED <<storeVars, recVars, dmVars, unitVars, askVars>>
  \/ (\E i \in -1..NumChannels, v \in SetpointInputs : SetSetpoint(i, v))
       /\ UNCHANGED <<storeVars, recVars, dmVars, unitVars, askVars>>
  \/ \E t \in Threads : CyclicStep(t)

Spec == Init /\ [][Next]_vars

(***************************************************************************)
(* FairSpec: the manager with its cyclic threads scheduled fairly.  The    *)
(* value of a setpoint does not bear on the control flow of the loop, so   *)
(* set_setpoint is called with one value here.                             *)
(***************************************************************************)
FairInputs == {Num(7)}

FairNext ==
  \/ Connect /\ UNCHANGED <<storeVars, recVars, dmVars, unitVars, askVars>>
  \/ Disconnect /\ UNCHANGED <<storeVars, recVars, dmVars, unitVars, askVars>>
  \/ (\E i \in 0..(NumChannels - 1), v \in FairInputs : SetSetpoint(i, v))
       /\ UNCHANGED <<storeVars, recVars, dmVars, unitVars, askVars>>
  \/ \E t \in Threads : CyclicStep(t)

\* the cyclic threads get to run: a started thread is an OS thread, and the
\* bus exchange and the sleep of an iteration return
FairSpec ==
  Init /\ [][FairNext]_vars /\ \A t \in Threads : WF_vars(CyclicStep(t))

(***************************************************************************)
(* ScaleSpec: the manager with get_full_scale called between the connects  *)
(* and disconnects.                                                        *)
(***************************************************************************)
ScaleNext ==
  \/ Connect /\ UNCHANGED <<storeVars, recVars, dmVars, unitVars, askVars>>
  \/ Disconnect /\ UNCHANGED <<storeVars, recVars, dmVars, unitVars, askVars>>
  \/ (\E i \in -1..NumChannels : GetFullScaleCall(i))
       /\ UNCHANGED <<storeVars, recVars, dmVars, unitVars>>
  \/ \E t \in Threads : CyclicStep(t)

ScaleSpec == Init /\ [][ScaleNext]_vars

(***************************************************************************)
(* StoreSpec: the data manager under update_data calls.                    *)
(***************************************************************************)
StoreNext ==
  (\E controllers_data \in Batches(nupd + 1) : UpdateData(controllers_data))
    /\ UNCHANGED <<mgrVars, recVars, dmVars, unitVars, askVars>>

StoreSpec == Init /\ [][StoreNext]_vars

(***************************************************************************)
(* RecSpec: the recorder under start, record and stop calls.               *)
(***************************************************************************)
RecNext ==
  \/ (\E p \in Paths, ok \in BOOLEAN : StartRecording(p, NumChannels, ok))
       /\ UNCHANGED <<mgrVars, storeVars, dmVars, unitVars, askVars>>
  \/ (\E controllers_data \in RecBatches : RecordData(controllers_data))
       /\ UNCHANGED <<mgrVars, storeVars, dmVars, unitVars, askVars>>
  \/ StopRecording /\ UNCHANGED <<mgrVars, storeVars, dmVars, unitVars, askVars>>

RecSpec == Init /\ [][RecNext]_vars

(***************************************************************************)
(* DriverSpec: one driver under the calls made on it.                      *)
(***************************************************************************)
DriverNext ==
  \/ (\E reply \in DriverReplies : DriverNew(reply))
       /\ UNCHANGED <<mgrVars, storeVars, recVars, dmVars, askVars>>
  \/ DriverMap /\ UNCHANGED <<mgrVars, storeVars, recVars, dmVars, askVars>>
  \/ (\E frame \in DriverFrames : DriverReceive(frame))
       /\ UNCHANGED <<mgrVars, storeVars, recVars, dmVars, askVars>>
  \/ (\E setpoint \in SetpointInputs, fault \in WriteFaults :
        DriverWrite(setpoint, fault))
       /\ UNCHANGED <<mgrVars, storeVars, recVars, dmVars, askVars>>
  \/ DriverRead /\ UNCHANGED <<mgrVars, storeVars, recVars, dmVars, askVars>>

DriverSpec == Init /\ [][DriverNext]_vars

(***************************************************************************)
(* DmSpec: the data manager, the recorder and their threads.               *)
(***************************************************************************)
DmNext ==
  \/ (\E controllers_data \in DmBatches(nupd + 1) : DmUpdateBegin(controllers_data))
       /\ UNCHANGED <<mgrVars, recVars, unitVars, askVars>>
  \/ DmUpdateStep /\ UNCHANGED <<mgrVars, recVars, unitVars, askVars>>
  \/ (\E i \in -1..NumChannels : DmGetCurrentData(i))
       /\ UNCHANGED <<mgrVars, storeVars, recVars, unitVars, askVars>>
  \/ (\E i \in -1..NumChannels : DmGetHistory(i))
       /\ UNCHANGED <<mgrVars, storeVars, recVars, unitVars, askVars>>
  \/ (\E p \in DmPaths, ok \in BOOLEAN, k \in Timers : DmStartRecording(p, ok, k))
       /\ UNCHANGED <<mgrVars, storeVars, unitVars, askVars>>
  \/ DmStopRecording /\ UNCHANGED <<mgrVars, storeVars, unitVars, askVars>>
  \/ (\E k \in Timers : DmTimerFire(k)) /\ UNCHANGED <<mgrVars, storeVars, recVars, unitVars, askVars>>
  \/ (\E k \in Timers : DmCheck(k)) /\ UNCHANGED <<mgrVars, storeVars, recVars, unitVars, askVars>>
  \/ (\E k \in Timers : DmRecordEnter(k)) /\ UNCHANGED <<mgrVars, storeVars, recVars, unitVars, askVars>>
  \/ (\E k \in Timers : DmRecordAppend(k)) /\ UNCHANGED <<mgrVars, storeVars, unitVars, askVars>>
  \/ (\E k \in Timers : DmArm(k)) /\ UNCHANGED <<mgrVars, storeVars, recVars, unitVars, askVars>>

DmSpec == Init /\ [][DmNext]_vars

(***************************************************************************)
(* Properties of the manager (Spec, FairSpec).                             *)
(***************************************************************************)
\* C1: a setpoint push of the cyclic thread (write_setpoint of the value it
\* read with get_setpoint) into a channel of self.drivers, made in the state
\* CONNECTED while no call of the control thread is in progress, leaves the
\* stored setpoint as the last completed set_setpoint call left it: it
\* overwrites no foreground write with the older value it read.
C1_PushKeepsForegroundWrite ==
  [][\A t \in Threads :
       (/\ cpc = "idle" /\ state = "connected"
        /\ thr[t].pc = "write" /\ thr'[t].pc # "write"
        /\ thr[t].ref = drivers
        /\ thr[t].i <= Len(drv[drivers])
        /\ Len(drv'[drivers]) = Len(drv[drivers]))
       => drv'[drivers][thr[t].i].setpoint = drv[drivers][thr[t].i].setpoint]_vars

\* C2: the stored setpoint s of every driver satisfies 0 <= s <= full_scale.
C2_SetpointInRange ==
  \A g \in Lists : \A j \in 1..Len(drv[g]) :
    /\ FLe(Num(0), drv[g][j].setpoint)
    /\ FLe(drv[g][j].setpoint, drv[g][j].full_scale)

\* a driver whose setpoint a call with a value above the scale has clamped
C2_Witness ==
  \E g \in Lists : \E j \in 1..Len(drv[g]) :
    drv[g][j].output.len > 0 /\ drv[g][j].setpoint = drv[g][j].full_scale

\* C3: the state is CONNECTED only when the most recent connect() call has
\* completed every step of the sequence and returned True; no step of a
\* connect in progress and no failed connect leaves the state CONNECTED.
C3_ConnectedOnlyAfterFullConnect ==
  state = "connected" =>
    /\ steps = AllSteps
    /\ cpc \in {"idle", "d_join", "d_zero", "d_init", "d_close", "d_clear"}
    /\ cpc = "idle" => result \in {"ok", "ok_state"}

\* connect() has returned True a second time
C3_Witness == state = "connected" /\ cpc = "idle" /\ nconn = MaxConnects

\* C4: the step that returns from disconnect() leaves the state DISCONNECTED
\* and the list self.drivers empty, whatever the teardown calls and the join
\* did.
C4_DisconnectEndsDisconnected ==
  [][(cpc = "d_clear" /\ cpc' = "idle")
       => (state' = "disconnected" /\ DriverList' = <<>> /\ master' = "none")]_vars

\* disconnect() has returned although the join timed out: a cyclic thread
\* is still alive
C4_Witness ==
  /\ state = "disconnected" /\ cpc = "idle" /\ nconn >= 1
  /\ \E t \in Threads : IsAlive(t)

\* C5: a cyclic thread exits only from the loop condition with the stop
\* event set; an iteration in which a step raised has called the error
\* callback, has not called the data callback, and is back at the loop
\* condition.
C5_ErrorsKeepLoopRunning ==
  /\ [](\A t \in Threads :
          thr[t].raised =>
            thr[t].reported /\ ~thr[t].pub /\ thr[t].pc = "top")
  /\ [][\A t \in Threads :
          (thr[t].pc # "exited" /\ thr'[t].pc = "exited")
            => (thr[t].pc = "top" /\ stop_event)]_vars

\* an iteration that raised, with the thread back at the loop condition and
\* the stop event clear
C5_Witness ==
  \E t \in Threads : thr[t].raised /\ thr[t].pc = "top" /\ ~stop_event

\* C6: while the stop event is set a cyclic thread at the loop condition
\* starts no iteration, and once the stop event is set every cyclic thread
\* alive exits unless the event is cleared again.
C6_StopEndsLoop ==
  /\ [][\A t \in Threads :
          (stop_event /\ stop_event' /\ thr[t].pc = "top")
            => thr'[t].pc \in {"top", "exited"}]_vars
  /\ stop_event ~> (~stop_event \/ \A t \in Threads : ~IsAlive(t))

\* a cyclic thread has exited with the stop event set
C6_Witness == stop_event /\ \E t \in Threads : thr[t].pc = "exited"

(***************************************************************************)
(* Properties of the data manager (StoreSpec).                             *)
(***************************************************************************)
\* the last n elements of a sequence
LastOf(q, n) == SubSeq(q, Len(q) - n + 1, Len(q))

\* C7: every deque of every channel's history is no longer than max_points,
\* and get_history returns the last min(n, max_points) of the n samples
\* appended for the channel, in the order of their appends.
C7_HistoryKeepsLast ==
  \A i \in Channels :
    LET a == appended[i]
        keep == IF Len(a) > MaxPoints THEN MaxPoints ELSE Len(a)
        last == LastOf(a, keep)
        h == GetHistory(i - 1)[1]
    IN /\ Len(h.time) <= MaxPoints
       /\ h.time = [k \in 1..keep |-> last[k].timestamp]
       /\ h.flow = [k \in 1..keep |-> last[k].flow]
       /\ h.pressure = [k \in 1..keep |-> last[k].pressure]
       /\ h.temperature = [k \in 1..keep |-> last[k].temperature]
       /\ h.setpoint = [k \in 1..keep |-> last[k].setpoint]

\* a channel with two samples more than max_points appended
C7_Witness == \E i \in Channels : Len(appended[i]) = MaxPoints + 2

(***************************************************************************)
(* Properties of the recorder (RecSpec).                                   *)
(***************************************************************************)
\* the flushes of a session of n rows that has stopped
ExpectedFlushes(n) ==
  [k \in 1..(n \div BufferSize) |-> BufferSize]
    \o (IF n % BufferSize > 0 THEN <<n % BufferSize>> ELSE <<>>)

\* C8: in a session on an open file with n rows recorded there have been
\* floor(n/N) flushes of N rows each, the buffer holds the rows recorded
\* since the last of them, and the file holds the header and the flushed
\* rows; stop_recording then adds a flush of the n mod N rows left when
\* there are any, and the file holds the header and the n rows in order,
\* each once.
C8_FlushPlan ==
  /\ []((is_recording /\ FileOpen) =>
          LET n == Len(session)
              done == BufferSize * (n \div BufferSize)
          IN /\ flushes = [k \in 1..(n \div BufferSize) |-> BufferSize]
             /\ buffer = SubSeq(session, done + 1, n)
             /\ disk[file[1].path] =
                  <<Header(NumChannels)>> \o SubSeq(session, 1, done))
  /\ [][(is_recording /\ FileOpen /\ ~is_recording') =>
          /\ flushes' = ExpectedFlushes(Len(session))
          /\ buffer' = <<>>
          /\ disk'[file[1].path] = <<Header(NumChannels)>> \o session]_vars

\* a stopped session of 2N+1 rows: two flushes of N rows and one of 1 row
C8_Witness ==
  /\ ~is_recording
  /\ Len(session) = 2 * BufferSize + 1
  /\ flushes = <<BufferSize, BufferSize, 1>>

\* C9: the file handle of the recorder is open exactly when the recording
\* flag is true.
C9_HandleOpenIffRecording == FileOpen <=> is_recording

\* C10: start_recording called while recording returns False and leaves the
\* file handle, the buffered rows and the recording flag as they were.
C10_StartWhileRecordingFails ==
  [][\A p \in Paths, ok \in BOOLEAN :
       (is_recording /\ StartRecording(p, NumChannels, ok))
         => (start_result' = "false" /\ UNCHANGED <<file, buffer, is_recording>>)]_vars

\* the steps of connect on which open() raises, or on which config_init()
\* returns fewer slaves than num_controllers
OpenRaises(c) == ConnectOpenWith(FALSE, c)
ShortCount(sc, c1, c2) == sc < cn /\ ConnectInitWith(TRUE, sc, c1, c2)
\* what such a step leaves behind apart from the adapter: connect has
\* returned (False, msg), the state is ERROR, and the call started no thread
FailedReturn ==
  /\ cpc' = "idle"
  /\ result' = "fail"
  /\ state' = "error"
  /\ thr' = thr
  /\ cyclic_thread' = cyclic_thread
  /\ "scheduler" \notin steps

\* C12 as stated: when open() raises or the discovered count is below the
\* expected one, connect returns a failure with the state ERROR, starts no
\* scheduler thread, and the adapter is not left open.
C12_FailedConnectAsStated ==
  [][ /\ \A c \in BOOLEAN : OpenRaises(c) => (FailedReturn /\ adapter' # "open")
      /\ \A sc \in 0..MaxSlaves, c1 \in BOOLEAN, c2 \in BOOLEAN :
           ShortCount(sc, c1, c2) => (FailedReturn /\ adapter' # "open") ]_vars

\* C12 amended: the same, except that on a short count the adapter is closed
\* only when one of the close() calls made on that path returned; when every
\* close() raised, the adapter stays as open() left it.
C12_FailedConnect ==
  [][ /\ \A c \in BOOLEAN : OpenRaises(c) => (FailedReturn /\ adapter' # "open")
      /\ \A sc \in 0..MaxSlaves, c1 \in BOOLEAN, c2 \in BOOLEAN :
           ShortCount(sc, c1, c2) =>
             /\ FailedReturn
             /\ (c1 \/ c2) => adapter' = "closed"
             /\ ~(c1 \/ c2) => adapter' = adapter ]_vars

C12_Witness ==
  /\ cpc = "idle" /\ state = "error" /\ result = "fail"
  /\ master = "fresh" /\ adapter = "closed" /\ nconn = MaxConnects

\* C13: when the bus reached SAFEOP and the Operational wait returns a state
\* other than OP, connect still returns success with the state CONNECTED, and
\* the cyclic thread started by the call keeps running: the stop event is
\* clear and the thread is alive.
C13_SafeOpWithoutOpConnects ==
  [][ \A c \in BOOLEAN :
        (actual_state = "safeop" /\ ConnectOpWaitWith(TRUE, c, "safeop")) =>
          /\ cpc' = "idle"
          /\ result' \in {"ok", "ok_state"}
          /\ state' = "connected"
          /\ ~stop_event'
          /\ cyclic_thread' \in Threads
          /\ thr'[cyclic_thread'].pc \notin {"none", "exited"} ]_vars

C13_Witness ==
  /\ cpc = "idle" /\ state = "connected" /\ result = "ok_state"
  /\ ~stop_event /\ cyclic_thread \in Threads /\ IsAlive(cyclic_thread)

\* the step on which connect returns success: the Operational wait returned
ConnectSucceeds == cpc = "c_opwait" /\ cpc' = "idle" /\ state' = "connected"
\* driver j of the list (counted from 1) is bound to device j - 1
BoundInOrder(ds) == \A j \in 1..Len(ds) : ds[j].controller_id = j - 1

\* C14 as stated: when the bus has not reached SAFEOP within the timeout,
\* connect returns a failure with the state ERROR; the only shortfall that is
\* accepted as CONNECTED is SAFEOP without OP.
C14_NoSafeOpFails ==
  [][ (cpc = "c_opwait" /\ actual_state = "preop" /\ cpc' = "idle") =>
        (result' = "fail" /\ state' = "error") ]_vars

\* C15 as stated: when connect(expected) returns success after discovering
\* d >= expected devices, the driver list has exactly d drivers and driver i
\* is bound to device i.
C15_DriverPerDiscovered ==
  [][ ConnectSucceeds =>
        (Len(DriverList') = slave_count /\ BoundInOrder(DriverList')) ]_vars

\* C15 amended: the driver list has exactly expected drivers, whatever the
\* discovered count d >= expected is, and driver i is bound to device i.
C15_DriverPerExpected ==
  [][ ConnectSucceeds =>
        /\ slave_count >= cn
        /\ Len(DriverList') = cn
        /\ BoundInOrder(DriverList') ]_vars

C15_Witness ==
  /\ cpc = "c_opwait" /\ "scheduler" \in steps
  /\ cn = 1 /\ slave_count = MaxSlaves /\ Len(DriverList) = 1

\* what a caller and the bus can see of the manager
Observable ==
  <<state, master, adapter, drv, drivers, cyclic_thread, stop_event, thr>>

\* C19: a step of disconnect() taken while the state is DISCONNECTED never
\* enters the part that writes to drivers, requests INIT or closes the
\* adapter, leaves the state DISCONNECTED with no master, no adapter and the
\* driver lists as they were, and has the stop event set; once the stop event
\* is set (a disconnect has run before) such a step changes nothing a caller
\* can see, so a second disconnect adds nothing to the first.
C19_DisconnectIdempotent ==
  [][ (state = "disconnected" /\ Disconnect) =>
        /\ master = "none" /\ adapter = "none"
        /\ cpc' \notin {"d_zero", "d_init", "d_close"}
        /\ UNCHANGED <<state, master, adapter, drv, drivers, cyclic_thread, thr>>
        /\ stop_event'
        /\ stop_event => UNCHANGED Observable ]_vars

C19_Witness ==
  /\ cpc = "d_clear" /\ state = "disconnected"
  /\ \E t \in Threads : thr[t].pc = "exited"

\* set_setpoint(i, sp) reaches write_setpoint of driver i, whose read of the
\* output buffer has the outcome fault
WritesTo(i, sp, fault) ==
  /\ 0 <= i /\ i < Len(DriverList)
  /\ SetSetpoint(i, sp)
  /\ DriverList'[i + 1] = WriteSetpointDriver(DriverList[i + 1], sp, fault)

\* C18 as stated: whenever write_setpoint returns False the stored setpoint
\* is the one before the call, and a NaN or infinite input is answered with
\* False and leaves the stored setpoint alone.
C18_FailedWriteKeepsSetpoint ==
  [][ \A i \in 0..(NumChannels - 1), sp \in SetpointInputs :
        WritesTo(i, sp, "none") =>
          LET d == DriverList[i + 1]
              after == DriverList'[i + 1]
              failed == WriteSetpointResult(d, "none") = "false"
          IN /\ failed => after.setpoint = d.setpoint
             /\ sp.k # "num" => (failed /\ after.setpoint = d.setpoint) ]_vars

(***************************************************************************)
(* Properties of the data manager and its threads (DmSpec).                *)
(***************************************************************************)
\* what get_current_data(i) and get_history(i) return on the store c
CurrentOf(c, i) ==
  IF 0 <= i /\ i < NumChannels THEN c.current_data[i + 1] ELSE <<>>
HistoryOf(c, i) ==
  IF 0 <= i /\ i < NumChannels THEN <<c.history[i + 1]>> ELSE <<>>
\* the store holds exactly the batches of the update_data calls that returned
NoPartialBatch ==
  /\ upd.pc = "idle"
  /\ current_data = committed.current_data
  /\ history = committed.history

\* C11: start_recording on a session that is not recording, when the
\* destination cannot be opened, returns failure, leaves the flag false and
\* no file object, schedules no record task (no timer object is created or
\* stored, the window thread does not go into _schedule_record); and a
\* record task that looks at the flag while it is false appends no row and
\* writes nothing.
C11_FailedStartLeavesNothing ==
  [][ /\ \A p \in DmPaths, k \in Timers :
           (~is_recording /\ DmStartRecording(p, FALSE, k)) =>
             /\ start_result' = "false"
             /\ ~is_recording'
             /\ file' = <<>>
             /\ tpc' = tpc /\ record_timer' = record_timer /\ gui_in' = 0
             /\ UNCHANGED <<buffer, disk, session>>
      /\ \A k \in Timers :
           (~is_recording /\ (DmCheck(k) \/ DmRecordEnter(k))) =>
             /\ tpc'[k] \in {"none", "arm"}
             /\ UNCHANGED <<buffer, disk, session, nrows>> ]_vars

C11_Witness ==
  /\ start_result = "false" /\ ~is_recording /\ file = <<>>
  /\ \A p \in Paths : disk[p] = <<>>
  /\ \A k \in Timers : tpc[k] = "none"

\* C16: a get_current_data or get_history call that runs while update_data
\* calls are made by another thread returns what the store holds after the
\* update_data calls that have returned, each applied as a whole: it never
\* sees a batch in part.
C16_ReadersSeeWholeBatches ==
  [][ \A i \in -1..NumChannels :
        /\ DmGetCurrentData(i) =>
             (NoPartialBatch /\ seen'.current = <<CurrentOf(committed, i)>>)
        /\ DmGetHistory(i) =>
             (NoPartialBatch /\ seen'.history = <<HistoryOf(committed, i)>>) ]_vars

C16_Witness ==
  /\ seen.op = "history" /\ seen.history # <<<<>>>>
  /\ Len(seen.history[1][1].time) = 1
  /\ upd.pc = "run" /\ upd.f > 0 /\ nupd = MaxPublishes

\* C17: every row the record task appends is the row of the cache as it is
\* at one instant at which no update_data call is in progress: the cache
\* holds exactly the batches published so far.
C17_RowsFromOneInstant ==
  [][ \A k \in Timers :
        DmRecordAppend(k) =>
          /\ NoPartialBatch
          /\ session' = Append(session, Row(nrows + 1, committed.current_data)) ]_vars

C17_Witness ==
  /\ session # <<>> /\ nupd >= 1 /\ upd.pc = "run"
  /\ \E ts \in 1..(MaxRecords + MaxTimers) :
       session[Len(session)] = Row(ts, committed.current_data)
  /\ committed.current_data[1] # <<>>

MathClamp(s, F) ==
  LET lo == IF FLe(s, Num(0)) THEN Num(0) ELSE s
  IN IF FLe(F, lo) THEN F ELSE lo

\* C21: after a write_setpoint(s) that returned True, for every s that is a
\* number or infinite, the stored setpoint is min(max(s, 0), F), the output
\* frame has 13 bytes with that value in its setpoint field and zero in the
\* three reserved fields; s = -5 with F = 30000 stores 0 and s = 50000 with
\* F = 30000 stores 30000.
C21_EncodeStoresClamped ==
  (last_call.op = "write" /\ last_call.ret = "true" /\ last_call.setpoint.k # "nan") =>
    /\ driver.setpoint = MathClamp(last_call.setpoint, driver.full_scale)
    /\ driver.output = [len |-> 13, setpoint |-> driver.setpoint,
                        res_b |-> 0, res_f |-> 0, res_u |-> 0]
    /\ (last_call.setpoint = Num(-5) /\ driver.full_scale = Num(30000)) =>
         driver.setpoint = Num(0)
    /\ (last_call.setpoint = Num(50000) /\ driver.full_scale = Num(30000)) =>
         driver.setpoint = Num(30000)

C21_Witness ==
  /\ last_call.op = "write" /\ last_call.ret = "true"
  /\ last_call.setpoint = Num(50000)
  /\ driver.full_scale = Num(30000) /\ driver.setpoint = Num(30000)

\* the reply of the object read is one the discovery accepts: no exception,
\* at least 4 bytes, a number within [1, 1000000]
Accepted(reply) ==
  /\ ~reply.exc
  /\ reply.len >= 4
  /\ reply.val.k = "num"
  /\ 1 <= reply.val.v /\ reply.val.v <= 1000000

\* C22: after the construction of a driver its scale is the value read when
\* the object read raised nothing, returned at least 4 bytes and the value
\* lies in [1, 1000000], and the default 30000 in every other case; the
\* scale of the driver is within [1, 1000000] at all times.
C22_ScaleDiscovery ==
  /\ driver.full_scale.k = "num"
  /\ 1 <= driver.full_scale.v /\ driver.full_scale.v <= 1000000
  /\ last_call.op = "init" =>
       /\ Accepted(last_call.reply) => driver.full_scale = last_call.reply.val
       /\ ~Accepted(last_call.reply) => driver.full_scale = Num(30000)

C22_Witness ==
  /\ last_call.op = "init"
  /\ last_call.reply.val = Num(MaxFullScale)
  /\ driver.full_scale = Num(MaxFullScale)

\* raw * scale / 10000 in whole units, the product taken in two parts to
\* stay within 32 bits
RefFlow(raw, F) ==
  (raw * (F.v \div 100) + (raw * (F.v % 100)) \div 100) \div 100
\* the fields of what read_data returned agree with the input frame
DecodesFrame ==
  IF driver.input.len < 13
  THEN last_call.data = <<>>
  ELSE /\ last_call.data # <<>>
       /\ last_call.data[1].flow = RefFlow(driver.input.flow_raw, driver.full_scale)
       /\ last_call.data[1].pressure = driver.input.pressure
       /\ last_call.data[1].temperature = driver.input.temperature
       /\ last_call.data[1].setpoint = driver.setpoint
       /\ driver.input.flow_raw = 10000 =>
            last_call.data[1].flow = driver.full_scale.v

\* C23 as stated: read_data returns nothing for an input frame that is
\* absent or shorter than 13 bytes, and else a sample with flow = raw *
\* scale / 10000, the pressure and temperature of the frame and the stored
\* setpoint; raw = 5000 with scale 30000 gives the flow 1500.
C23_DecodeAsStated ==
  last_call.op = "read" =>
    /\ DecodesFrame
    /\ (driver.input.len >= 13 /\ driver.input.flow_raw = 5000
        /\ driver.full_scale = Num(30000)) => last_call.data[1].flow = 1500

\* C23 amended: the same, and raw = 5000 with scale 30000 gives the flow
\* 15000.
C23_Decode ==
  last_call.op = "read" =>
    /\ DecodesFrame
    /\ (driver.input.len >= 13 /\ driver.input.flow_raw = 5000
        /\ driver.full_scale = Num(30000)) => last_call.data[1].flow = 15000

C23_Witness ==
  /\ last_call.op = "read" /\ last_call.data # <<>>
  /\ driver.input.flow_raw = 5000 /\ driver.full_scale = Num(30000)
  /\ last_call.data[1].flow = 15000 /\ driver.setpoint = Num(7)

(***************************************************************************)
(* Properties of update_data (StoreSpec).                                  *)
(***************************************************************************)
\* a deque of at most MaxPoints elements after one more element x
OneMore(q, x) ==
  LET a == q \o <<x>>
  IN IF Len(a) > MaxPoints THEN SubSeq(a, 2, Len(a)) ELSE a

\* channel i after update(batch) when the batch holds the sample s for it
GetsSample(i, s) ==
  /\ current_data'[i] = <<s>>
  /\ appended'[i] = appended[i] \o <<s>>
  /\ history'[i] = [time |-> OneMore(history[i].time, s.timestamp),
                    flow |-> OneMore(history[i].flow, s.flow),
                    pressure |-> OneMore(history[i].pressure, s.pressure),
                    temperature |-> OneMore(history[i].temperature, s.temperature),
                    setpoint |-> OneMore(history[i].setpoint, s.setpoint)]

\* channel i left alone by update(batch)
Untouched(i) ==
  /\ current_data'[i] = current_data[i]
  /\ appended'[i] = appended[i]
  /\ history'[i] = history[i]

\* C24: update(batch) changes only the channels that produced a sample: a
\* channel whose slot of the batch is empty or missing keeps its cache entry
\* and its history, a slot beyond the channel count changes nothing, and
\* every channel with a sample gets that sample as current and appended to
\* its history exactly once.
C24_UpdateOnlySampled ==
  [][\A b \in Batches(nupd + 1) :
       UpdateData(b) =>
         /\ DOMAIN current_data' = Channels
         /\ DOMAIN history' = Channels
         /\ \A i \in Channels :
              IF i <= Len(b) /\ b[i] # <<>>
              THEN GetsSample(i, b[i][1])
              ELSE Untouched(i)]_vars

\* a channel holding a sample has been through an update with an empty slot
\* for it while the other channel got a sample
C24_Witness ==
  \E i, j \in Channels :
    /\ i # j
    /\ current_data[i] # <<>>
    /\ current_data[j] # <<>>
    /\ current_data[i][1].timestamp < current_data[j][1].timestamp
    /\ Len(appended[i]) = 1
    /\ Len(appended[j]) >= 2

(***************************************************************************)
(* Properties of get_full_scale (ScaleSpec).                               *)
(***************************************************************************)
\* C25: get_full_scale(i) never fails, whatever the connection state: it
\* returns the full scale driver i discovered when 0 <= i < number of
\* drivers, and the default 30000 for every other index (negative, too
\* large, or no drivers at all before a connect and after a disconnect),
\* and it changes nothing of the manager.
C25_FullScaleOrDefault ==
  [][\A i \in -1..NumChannels :
       GetFullScaleCall(i) =>
         LET ret == scale_seen'[1].ret
             n == IF drivers = 0 THEN 0 ELSE Len(drv[drivers])
         IN /\ ret.k = "num"
            /\ (0 <= i /\ i < n) => ret = drv[drivers][i + 1].full_scale
            /\ ~(0 <= i /\ i < n) => ret = Num(30000)
            /\ state = "disconnected" /\ nconn = 0 => ret = Num(30000)
            /\ UNCHANGED mgrVars]_vars

\* while connected the second driver was asked for and answered with a
\* full scale it discovered, which is not the default
C25_Witness ==
  /\ scale_seen # <<>>
  /\ scale_seen[1].index = 1
  /\ scale_seen[1].ret # Num(30000)
  /\ state = "connected"
  /\ Len(DriverList) = 2
  /\ DriverList[2].full_scale = scale_seen[1].ret

\* the default came back for an index with no driver behind it
C25_DefaultSeen ==
  /\ scale_seen # <<>>
  /\ scale_seen[1].index = -1
  /\ scale_seen[1].ret = Num(30000)
  /\ state = "error"
  /\ Len(DriverList) = 1
  /\ DriverList[1].full_scale # Num(30000)

(***************************************************************************)
(* Properties of one iteration of the cyclic thread (Spec).                *)
(***************************************************************************)
\* n times the event e
Times(e, n) == [k \in 1..n |-> e]

\* the calls of a whole iteration over n drivers
WholeIteration(n) ==
  Times("push", n) \o <<"tx", "rx">> \o Times("dec", n)

\* tr is the beginning of the calls of an iteration over some number of
\* drivers pushed and some number decoded
BeginsIteration(tr) ==
  \E k, m \in 0..MaxSlaves :
    \E n \in 0..(k + 2 + m) :
      tr = SubSeq(Times("push", k) \o <<"tx", "rx">> \o Times("dec", m), 1, n)

\* the step of thread t that hands a batch to the data callback
Publishes(t) == thr[t].pc = "dec" /\ thr'[t].pc = "top" /\ thr'[t].pub

\* the calls of every iteration come in the order of the loop body: the
\* pushes, then one send, then one receive, then the decodes
IterationCallsInOrder == \A t \in Threads : BeginsIteration(thr[t].trace)

\* C26: in every iteration of the cyclic thread the setpoint of every driver
\* is pushed first, then one send and one receive follow, then the input of
\* every driver is decoded, and one batch with one slot per driver is handed
\* over: no decode before the exchange, no second exchange, and a batch
\* that is handed over comes from as many pushes as decodes as slots.
C26_IterationOrder ==
  [][\A t \in Threads :
       /\ BeginsIteration(thr'[t].trace)
       /\ Publishes(t) =>
            \E n \in 0..MaxSlaves :
              /\ thr[t].trace = WholeIteration(n)
              /\ Len(thr[t].batch) = n]_vars

(***************************************************************************)
(* Properties of the order of disconnect (Spec).                           *)
(***************************************************************************)
\* the positions of the control thread inside disconnect()
InDisconnect == {"d_join", "d_zero", "d_init", "d_close", "d_clear"}

\* the control thread moves from position a to position b
Goes(a, b) == cpc = a /\ cpc' = b

\* C27: disconnect() tears down in a fixed order: the stop event is set and
\* the cyclic thread joined (or the join timed out) before any zero setpoint
\* is written; write_setpoint(0.0) has been called on every driver before
\* INIT is requested; INIT is requested before the adapter is closed; the
\* driver list is cleared and the state set to DISCONNECTED by the last
\* step.  A join that timed out with the thread alive does not stop the
\* teardown.
C27_TeardownOrder ==
  [][/\ (cpc' = "d_join" /\ cpc # "d_join") => (cpc = "idle" /\ stop_event')
     /\ (cpc' = "d_zero" /\ cpc # "d_zero") => (cpc = "d_join" /\ stop_event)
     /\ (cpc = "d_zero" /\ drv' # drv /\ cpc' \in InDisconnect) => stop_event
     /\ (cpc' = "d_init" /\ cpc # "d_init") =>
          (cpc = "d_zero" /\ ci = Len(DriverList))
     /\ (cpc' = "d_close" /\ cpc # "d_close") => cpc = "d_init"
     /\ (cpc \in InDisconnect /\ adapter' = "closed" /\ adapter # "closed") =>
          cpc = "d_close"
     /\ (cpc \in InDisconnect /\ cpc' \in InDisconnect) =>
          (state' = state /\ drivers' = drivers /\ master' = master
             /\ Len(DriverList') = Len(DriverList))
     /\ (cpc \in InDisconnect /\ cpc' = "idle") =>
          (cpc = "d_clear" /\ state' = "disconnected" /\ DriverList' = <<>>)
     /\ (cpc = "d_join" /\ cpc' # "d_join" /\ master # "none") => cpc' = "d_zero"
    ]_vars

\* the teardown is about to close the adapter after a join that timed out: a
\* cyclic thread is alive, and both drivers got their zero setpoint
C27_Witness ==
  /\ cpc = "d_close"
  /\ \E t \in Threads : IsAlive(t)
  /\ Len(DriverList) = 2
  /\ ci = 2
  /\ \A j \in 1..2 : DriverList[j].output.setpoint = Num(0)

(***************************************************************************)
(* Properties of the order of connect (Spec).                              *)
(***************************************************************************)
\* the control thread makes the Operational request: write_state() returns
\* or raises
RequestsOp == cpc = "c_opreq" /\ cpc' # "c_opreq"

\* a driver is constructed, which is where the full scale object is read
ConstructsDriver == Len(DriverList') > Len(DriverList)

\* C28: within connect the Operational state is requested only after every
\* driver has been constructed with its scale discovery finished, the
\* mapping and the clock configuration are done and the cyclic thread has
\* been started; no scale-discovery read is issued after the request.
C28_OpRequestedLast ==
  [][/\ RequestsOp =>
          /\ {"drivers", "map", "dc", "scheduler"} \subseteq steps
          /\ Len(DriverList) = cn
          /\ \A j \in 1..cn :
               /\ DriverList[j].full_scale.k = "num"
               /\ DriverList[j].full_scale.v \in 1..1000000
               /\ DriverList[j].output.len # 0
          /\ cyclic_thread # 0
          /\ thr[cyclic_thread].pc # "none"
     /\ ConstructsDriver =>
          /\ cpc = "c_drivers"
          /\ "opreq" \notin steps
          /\ "scheduler" \notin steps
     /\ ("opreq" \in steps /\ "opreq" \in steps') =>
          [j \in 1..Len(DriverList') |-> DriverList'[j].full_scale]
            = [j \in 1..Len(DriverList) |-> DriverList[j].full_scale]
    ]_vars

\* Operational has been requested for two drivers, one of them with a
\* discovered full scale, and the cyclic thread runs
C28_Witness ==
  /\ cpc = "c_opwait"
  /\ "opreq" \in steps
  /\ Len(DriverList) = 2
  /\ DriverList[1].full_scale # Num(30000)
  /\ IsAlive(cyclic_thread)

(***************************************************************************)
(* Properties of the cyclic threads of the manager (Spec).                 *)
(***************************************************************************)
\* the cyclic threads that are alive
AliveThreads == {t \in Threads : IsAlive(t)}

\* C29: at most one cyclic thread is alive at any time, whatever the
\* sequence of connect and disconnect calls: connect failing after the
\* thread was started, connect while CONNECTED or ERROR, connect after a
\* disconnect whose join timed out.
C29_OneCyclicThread == Cardinality(AliveThreads) <= 1

\* thread t calls send_processdata or receive_processdata in this step
Exchanges(t) == thr[t].pc \in {"send", "recv"} /\ thr'[t] # thr[t]

\* thread t reads self.drivers or works on a driver of it in this step
TouchesDrivers(t) ==
  /\ thr'[t] # thr[t]
  /\ \/ thr[t].pc \in {"enc", "write", "dec"}
     \/ thr[t].pc = "top" /\ thr'[t].pc = "enc"
     \/ thr[t].pc = "recv" /\ thr'[t].pc = "dec"

\* C30: a cyclic thread never exchanges on an adapter that was closed or
\* released: while the state is ERROR or DISCONNECTED no iteration calls
\* send or receive, and none touches the driver list.
C30_NoExchangeWhenDown ==
  [][\A t \in Threads :
       state \in {"error", "disconnected"} =>
         ~Exchanges(t) /\ ~TouchesDrivers(t)]_vars

(***************************************************************************)
(* Properties of the record task and the timers (DmSpec).                  *)
(***************************************************************************)
\* no thread is inside _schedule_record: every timer object is unused or
\* waits for its interval
RecordTaskIdle == gui_in = 0 /\ \A k \in Timers : tpc[k] \in {"none", "pending"}

\* C31: no recorded row is lost, however the record task and stop_recording
\* interleave: once stop_recording has returned and the record task is
\* idle, the row buffer is empty and the destination holds, after its
\* header, every row record_data appended in the session, each once and in
\* the order of the appends.
C31_NoRowLost ==
  (~is_recording /\ start_result = "true" /\ RecordTaskIdle) =>
    /\ buffer = <<>>
    /\ \A p \in DmPaths : disk[p] = <<Header(NumChannels)>> \o session

\* the timer chains that exist: timer objects that wait for their interval
\* or whose thread is inside _schedule_record
Chains == {k \in Timers : tpc[k] # "none"}

\* C32: at most one record timer chain is pending or running:
\* stop_recording leaves no chain that will record again, so a
\* start_recording that succeeds on a stopped session leaves exactly the
\* chain it begins, and never two chains that append rows to the session.
C32_OneTimerChain ==
  [][\A p \in DmPaths, ok \in BOOLEAN, k \in Timers :
       (~is_recording /\ DmStartRecording(p, ok, k) /\ is_recording') =>
         Chains' = {k}]_vars

\* two chains wait for their interval in a session that is recording and
\* has rows
TwoChainsRecording ==
  /\ is_recording
  /\ \A k \in Timers : tpc[k] = "pending"
  /\ session # <<>>

====
